---- MODULE Spec2Model ----
(***************************************************************************)
(* Model of be/src/vec/common/sort/sorter.cpp: MergeSorterState, Sorter    *)
(* and FullSorter.  A block is the sequence of its rows; a row is its      *)
(* sort-key value (one ordering expression).  The caller drives the        *)
(* operator through append_block, prepare_for_read and get_next.           *)
(***************************************************************************)
EXTENDS Integers, Sequences, FiniteSets

\* ------------------------------------------------------------ bounds
MaxVal == 2
MaxRows == 3
MaxLimit == 1
MaxOffset == 2
MaxThreshold == 2
MaxBatchSize == 2

Values == 1..MaxVal
\* the blocks a caller can hand to append_block (rows() > 0)
InputBlocks == UNION {[1..n -> Values] : n \in 1..MaxRows}

VARIABLES
    \* Sorter / FullSorter configuration, fixed at construction
    _limit, _offset, is_asc, flush_threshold,
    \* RuntimeState::batch_size()
    batch_size,
    \* the build: whether a moved-from Block is left without rows
    move_empties,
    \* MergeSorterState
    unsorted_block, sorted_blocks, num_rows, cursors, priority_queue, state_offset,
    \* Sorter
    _block_priority_queue,
    \* the caller's side of get_next: its output block and its eos flag
    out_block, eos,
    \* the process: prepare_for_read has returned; the process has aborted;
    \* the caller has broken the call contract (such a run is followed no further)
    prepared, aborted, misused,
    \* a call has returned a failed status (the caller abandons the operator)
    failed,
    \* observation of the run (never read by the operations)
    input, retained, sort_log, pruned, emitted, done, last

config == <<_limit, _offset, is_asc, flush_threshold, batch_size, move_empties>>
write_side == <<unsorted_block, sorted_blocks, num_rows, _block_priority_queue>>
read_side == <<cursors, priority_queue, state_offset>>
caller_side == <<out_block, eos>>
observed == <<input, retained, sort_log, pruned, emitted, done, last>>
vars == <<config, write_side, read_side, caller_side, prepared, aborted, misused, failed,
          observed>>

\* ------------------------------------------------------------ SortKeySpec
\* _sort_description[i].direction
direction == IF is_asc THEN 1 ELSE -1

\* compare_at under the sort description: a sorts strictly before b
less(a, b) == direction * a < direction * b

\* ------------------------------------------------------------ collaborators
\* the element of a set of one element
Only(S) == CHOOSE x \in S : TRUE

RECURSIVE insert_sorted(_, _)
insert_sorted(s, x) ==
    IF s = <<>> THEN <<x>>
    ELSE IF less(x, Head(s)) THEN <<x>> \o s
    ELSE <<Head(s)>> \o insert_sorted(Tail(s), x)

RECURSIVE full_sort(_)
full_sort(block) ==
    IF block = <<>> THEN <<>>
    ELSE Only({insert_sorted(rest, Head(block)) : rest \in {full_sort(Tail(block))}})

\* sort_block(block, description, limit): the parameter is unsigned, so a
\* negative argument arrives as a value above every row count; 0 and any
\* value >= rows() mean a full sort; otherwise only the first `limit` rows of
\* the sorted order are kept.
sort_block(block, limit) ==
    IF limit < 0 \/ limit = 0 \/ limit >= Len(block)
    THEN full_sort(block)
    ELSE SubSeq(full_sort(block), 1, limit)

\* Block::skip_num_rows(n): drop a prefix of n rows (all rows when n >= rows())
skip_num_rows(block, n) ==
    IF n >= Len(block) THEN <<>> ELSE SubSeq(block, n + 1, Len(block))

\* FullSorter::_reach_limit(): the accumulator reached the flush threshold
_reach_limit(block) == Len(block) >= flush_threshold

\* MergeSortBlockCursor::totally_greater: every row of the candidate is worse
\* than the last (worst) row of the other block
totally_greater(block, other) ==
    IF block = <<>> \/ other = <<>> THEN FALSE
    ELSE less(other[Len(other)], block[1])

\* top of the max-heap of blocks ordered by their last row
heap_top(heap) ==
    heap[CHOOSE i \in 1..Len(heap) :
            \A j \in 1..Len(heap) :
                ~less(heap[i][Len(heap[i])], heap[j][Len(heap[j])])]

\* MergeSortCursor: current row, isLast
cursor_row(c) == c.rows[c.pos + 1]
is_last(c) == c.pos + 1 >= Len(c.rows)

\* top of the min-heap of cursors ordered by their current row; among equal
\* rows the cursor created first
queue_top(pq, cur) ==
    CHOOSE c \in pq :
        /\ \A d \in pq : ~less(cursor_row(cur[d]), cursor_row(cur[c]))
        /\ \A d \in pq : (d < c) => less(cursor_row(cur[c]), cursor_row(cur[d]))

\* the rows appended so far, kept as a bag (in ascending value order)
RECURSIVE bag_insert(_, _)
bag_insert(s, x) ==
    IF s = <<>> THEN <<x>>
    ELSE IF x <= Head(s) THEN <<x>> \o s
    ELSE <<Head(s)>> \o bag_insert(Tail(s), x)

RECURSIVE bag_add(_, _)
bag_add(s, b) ==
    IF b = <<>> THEN s
    ELSE Only({bag_add(t, Tail(b)) : t \in {bag_insert(s, Head(b))}})

\* ------------------------------------------------------------ Sorter
\* partial_sort with the call of sort_block left out
partial_sort_no_sort(block) == block

\* Sorter::partial_sort: sort_block(block, _sort_description, _offset + _limit)
partial_sort(block) == sort_block(block, _offset + _limit)

\* block.rows() read in _do_sort after the block was moved into sorted_blocks:
\* the moved-from block holds no column, or still reports its rows
rows_after_move(block) == IF move_empties THEN 0 ELSE Len(block)

\* the outcomes of reading _block_priority_queue.top() on an empty heap: the
\* test answers either way, or the process dies
UBOutcomes == {"greater", "not_greater", "crash"}

\* whether a _do_sort now reads the top of an empty heap
reads_empty_heap == _limit # -1 /\ ~(num_rows < _limit) /\ _block_priority_queue = <<>>
top_outcomes == IF reads_empty_heap THEN UBOutcomes ELSE {"defined"}

\* the statuses partial_sort returns: an ordering or output expression may
\* fail to execute
SortStatus == {"OK", "ERROR"}

\* _do_sort with RETURN_IF_ERROR(partial_sort(block)) left out
returns_early_never(status) == FALSE

\* RETURN_IF_ERROR(partial_sort(block)) in _do_sort
returns_early(status) == status # "OK"

\* a heap that holds the pushed block alone
heap_push_evict(heap, block) == <<block>>

\* _block_priority_queue.emplace / push
heap_push(heap, block) == Append(heap, block)

\* _do_sort that leaves the accumulator as it is
reset_block_kept(acc) == acc

\* _state->reset_block(): the accumulator after a sort-and-admit step
reset_block(acc) == <<>>

\* FullSorter::_do_sort on the accumulated rows acc; ub is the outcome taken
\* when the totally-greater test reads the top of an empty heap, status the
\* status partial_sort returns
_do_sort(acc, ub, status) ==
    \E block \in {partial_sort(acc)} :
    LET log(branch) == [ran |-> TRUE, bound |-> _offset + _limit, rows |-> Len(acc),
                        branch |-> branch, heap |-> Len(_block_priority_queue)]
    IN
    /\ failed' = (status # "OK")
    /\ IF returns_early(status) THEN
           \* to_block(0) has drained the accumulator into the local block
           /\ unsorted_block' = <<>>
           /\ sort_log' = log("failed")
           /\ UNCHANGED <<sorted_blocks, num_rows, _block_priority_queue, pruned, aborted>>
       ELSE IF _limit # -1 THEN
           IF num_rows < _limit THEN
               /\ sorted_blocks' = Append(sorted_blocks, block)
               /\ num_rows' = num_rows + rows_after_move(block)
               /\ _block_priority_queue' = heap_push(_block_priority_queue, block)
               /\ unsorted_block' = reset_block(acc)
               /\ sort_log' = log("admit")
               /\ UNCHANGED <<pruned, aborted>>
           ELSE
               LET greater == IF _block_priority_queue = <<>>
                              THEN ub
                              ELSE IF totally_greater(block, heap_top(_block_priority_queue))
                                   THEN "greater" ELSE "not_greater"
               IN
               IF greater = "crash" THEN
                   /\ aborted' = TRUE
                   /\ unsorted_block' = acc
                   /\ sort_log' = log("crash")
                   /\ UNCHANGED <<sorted_blocks, num_rows, _block_priority_queue, pruned>>
               ELSE IF greater = "not_greater" THEN
                   /\ sorted_blocks' = Append(sorted_blocks, block)
                   /\ _block_priority_queue' = heap_push(_block_priority_queue, block)
                   /\ unsorted_block' = reset_block(acc)
                   /\ sort_log' = log("keep")
                   /\ UNCHANGED <<num_rows, pruned, aborted>>
               ELSE
                   /\ pruned' = pruned \o block
                   /\ unsorted_block' = reset_block(acc)
                   /\ sort_log' = log("discard")
                   /\ UNCHANGED <<sorted_blocks, num_rows, _block_priority_queue, aborted>>
       ELSE
           /\ sorted_blocks' = Append(sorted_blocks, block)
           /\ unsorted_block' = reset_block(acc)
           /\ sort_log' = log("full")
           /\ UNCHANGED <<num_rows, _block_priority_queue, pruned, aborted>>

\* ------------------------------------------------------------ MergeSorterState
\* build_merge_tree walking sorted_blocks from the back
build_cursors_reversed(blocks) ==
    [i \in 1..Len(blocks) |-> [rows |-> blocks[Len(blocks) + 1 - i], pos |-> 0]]

\* MergeSorterState::build_merge_tree over the blocks
build_cursors(blocks) == [i \in 1..Len(blocks) |-> [rows |-> blocks[i], pos |-> 0]]

\* build_merge_tree pushing all cursors but the last
build_queue_short(blocks) == IF Len(blocks) > 1 THEN 1..(Len(blocks) - 1) ELSE {}

build_queue(blocks) == IF Len(blocks) > 1 THEN 1..Len(blocks) ELSE {}

\* a popped row emitted whatever the offset
emit_row_always(off) == TRUE

\* one row popped in merge_sort_read: emitted when _offset == 0, else skipped
emit_row(off) == off = 0

\* the loop left one row after the quota
quota_reached_late(merged_rows, quota) == merged_rows = quota + 1

\* merged_rows == state->batch_size(): the loop of merge_sort_read breaks
quota_reached(merged_rows, quota) == merged_rows = quota

\* end-of-stream set as soon as the queue is empty, rows merged or not
merge_eos_queue_empty(merged_rows, queue_empty) == queue_empty

\* end-of-stream never set by merge_sort_read
merge_eos_never(merged_rows, queue_empty) == FALSE

\* merged_rows == 0 after the loop: *eos = true and the block is not touched
merge_eos(merged_rows, queue_empty) == merged_rows = 0

\* one pass through the body of the while loop: the top cursor is popped, its
\* row merged or counted off the offset, the cursor advanced and pushed back
\* unless it stood on its last row
pop_row(pq, cur, off, merged_columns, merged_rows) ==
    Only({[pq |-> IF is_last(cur[current]) THEN pq \ {current} ELSE pq,
           cursors |-> IF is_last(cur[current]) THEN cur
                       ELSE [cur EXCEPT ![current].pos = @ + 1],
           offset |-> IF emit_row(off) THEN off ELSE off - 1,
           merged_columns |-> IF emit_row(off)
                              THEN Append(merged_columns, cursor_row(cur[current]))
                              ELSE merged_columns,
           merged_rows |-> IF emit_row(off) THEN merged_rows + 1 ELSE merged_rows] :
          current \in {queue_top(pq, cur)}})

\* the while loop of merge_sort_read
RECURSIVE merge_loop(_, _, _, _, _, _)
merge_loop(pq, cur, off, merged_columns, merged_rows, quota) ==
    IF pq = {}
    THEN [pq |-> pq, cursors |-> cur, offset |-> off,
          merged_columns |-> merged_columns, merged_rows |-> merged_rows]
    ELSE Only({IF quota_reached(n.merged_rows, quota)
               THEN n
               ELSE merge_loop(n.pq, n.cursors, n.offset, n.merged_columns,
                               n.merged_rows, quota) :
               n \in {pop_row(pq, cur, off, merged_columns, merged_rows)}})

\* what merge_sort_read leaves behind once the loop has ended in r
merge_result(r, block) ==
    [pq |-> r.pq, cursors |-> r.cursors, offset |-> r.offset,
     block |-> IF r.merged_rows = 0 THEN block ELSE r.merged_columns,
     eos |-> merge_eos(r.merged_rows, r.pq = {}),
     emit |-> SubSeq(r.merged_columns,
                     Len(r.merged_columns) - r.merged_rows + 1,
                     Len(r.merged_columns))]

\* merge_sort_read that starts every call with no row left to skip
merge_sort_read_no_offset(pq, cur, off, block, mem_reuse, quota) ==
    Only({merge_result(r, block) :
          r \in {merge_loop(pq, cur, 0, IF mem_reuse THEN block ELSE <<>>, 0, quota)}})

\* MergeSorterState::merge_sort_read on the caller's block: with mem_reuse
\* the rows go into the block's own columns, else into fresh columns that are
\* swapped into the block; no row merged: eos, block untouched
merge_sort_read(pq, cur, off, block, mem_reuse, quota) ==
    Only({merge_result(r, block) :
          r \in {merge_loop(pq, cur, off, IF mem_reuse THEN block ELSE <<>>, 0, quota)}})

\* ------------------------------------------------------------ FullSorter
\* the single block emitted with no row skipped
single_emit_no_skip(block0) == block0

\* get_next with exactly one sorted block: the block minus its first _offset rows
single_emit(block0) ==
    IF _offset # 0 THEN skip_num_rows(block0, _offset) ELSE block0

\* FullSorter::get_next on the caller's block (the caller passes *eos = false)
get_next(block, mem_reuse) ==
    IF sorted_blocks = <<>> THEN
        [sorted_blocks |-> sorted_blocks, pq |-> priority_queue, cursors |-> cursors,
         offset |-> state_offset, block |-> block, eos |-> TRUE,
         emit |-> <<>>, path |-> "empty"]
    ELSE IF Len(sorted_blocks) = 1 THEN
        [sorted_blocks |-> <<block>>, pq |-> priority_queue, cursors |-> cursors,
         offset |-> state_offset, block |-> single_emit(sorted_blocks[1]), eos |-> TRUE,
         emit |-> single_emit(sorted_blocks[1]), path |-> "single"]
    ELSE
        Only({[sorted_blocks |-> sorted_blocks, pq |-> r.pq, cursors |-> r.cursors,
               offset |-> r.offset, block |-> r.block, eos |-> r.eos,
               emit |-> r.emit, path |-> "merge"] :
              r \in {merge_sort_read(priority_queue, cursors, state_offset, block,
                                     mem_reuse, batch_size)}})

\* ------------------------------------------------------------ the caller
\* the block a caller passes to get_next: a new Block (no column), its output
\* block with the column data cleared, or its output block as the last call
\* left it
CallerModes == {"fresh", "cleared", "kept"}
caller_rows(mode) == IF mode = "kept" THEN out_block ELSE <<>>
caller_mem_reuse(mode) == mode # "fresh"

\* the process runs and its caller has kept to the call contract
alive == ~aborted /\ ~misused /\ ~failed

no_call == [op |-> "none", empty_in |-> FALSE, flushed |-> FALSE, block_in |-> <<>>,
            emit |-> <<>>, path |-> "none", prepared |-> FALSE, drained |-> FALSE,
            first |-> FALSE]

Init ==
    /\ _limit \in {-1} \cup 0..MaxLimit
    /\ _offset \in 0..MaxOffset
    /\ is_asc \in BOOLEAN
    /\ flush_threshold \in 1..MaxThreshold
    /\ batch_size \in 1..MaxBatchSize
    /\ move_empties \in (IF _limit >= 1 THEN BOOLEAN ELSE {TRUE})
    /\ unsorted_block = <<>>
    /\ sorted_blocks = <<>>
    /\ num_rows = 0
    /\ cursors = <<>>
    /\ priority_queue = {}
    /\ state_offset = _offset
    /\ _block_priority_queue = <<>>
    /\ out_block = <<>>
    /\ eos = FALSE
    /\ prepared = FALSE
    /\ aborted = FALSE
    /\ misused = FALSE
    /\ failed = FALSE
    /\ input = <<>>
    /\ retained = <<>>
    /\ sort_log = [ran |-> FALSE, bound |-> 0, rows |-> 0, branch |-> "none", heap |-> 0]
    /\ pruned = <<>>
    /\ emitted = <<>>
    /\ done = FALSE
    /\ last = no_call

\* FullSorter::append_block with a block of at least one row
AppendBlock ==
    /\ ~prepared /\ alive
    /\ \E b \in InputBlocks :
        /\ Len(input) + Len(b) <= MaxRows
        /\ input' = bag_add(input, b)
        /\ IF _reach_limit(unsorted_block \o b)
           THEN \E ub \in top_outcomes, status \in SortStatus :
                    _do_sort(unsorted_block \o b, ub, status)
           ELSE /\ unsorted_block' = unsorted_block \o b
                /\ UNCHANGED <<sorted_blocks, num_rows, _block_priority_queue,
                               sort_log, pruned, aborted, failed>>
        /\ last' = [no_call EXCEPT !.op = "append_block",
                                   !.flushed = _reach_limit(unsorted_block \o b)]
    /\ UNCHANGED <<config, read_side, caller_side, prepared, misused, retained, emitted, done>>

\* FullSorter::prepare_for_read
PrepareForRead ==
    /\ ~prepared /\ alive
    /\ IF Len(unsorted_block) > 0
       THEN \E ub \in top_outcomes, status \in SortStatus : _do_sort(unsorted_block, ub, status)
       ELSE UNCHANGED <<write_side, sort_log, pruned, aborted, failed>>
    /\ IF aborted' \/ failed'
       THEN UNCHANGED <<read_side, prepared, retained>>
       ELSE /\ cursors' = build_cursors(sorted_blocks')
            /\ priority_queue' = build_queue(sorted_blocks')
            /\ prepared' = TRUE
            /\ retained' = sorted_blocks'
            /\ UNCHANGED state_offset
    /\ last' = [no_call EXCEPT !.op = "prepare_for_read",
                               !.flushed = (Len(unsorted_block) > 0)]
    /\ UNCHANGED <<config, caller_side, misused, input, emitted, done>>

\* one get_next call, whatever the phase
GetNextCall(mode) ==
    \E r \in {get_next(caller_rows(mode), caller_mem_reuse(mode))} :
    /\ sorted_blocks' = r.sorted_blocks
    /\ priority_queue' = r.pq
    /\ cursors' = r.cursors
    /\ state_offset' = r.offset
    /\ out_block' = r.block
    /\ eos' = r.eos
    /\ emitted' = IF done THEN emitted ELSE emitted \o r.emit
    /\ done' = (done \/ r.eos)
    /\ last' = [op |-> "get_next", empty_in |-> FALSE, flushed |-> FALSE, block_in |-> caller_rows(mode),
                emit |-> r.emit, path |-> r.path, prepared |-> prepared,
                drained |-> done, first |-> (last.op # "get_next")]
    /\ UNCHANGED <<config, unsorted_block, num_rows, _block_priority_queue,
                   prepared, aborted, failed, input, retained, sort_log, pruned>>

\* FullSorter::get_next after prepare_for_read
GetNext ==
    /\ prepared /\ alive
    /\ \E mode \in CallerModes :
        /\ (mode = "kept") => (out_block # <<>>)
        /\ GetNextCall(mode)
    /\ UNCHANGED misused

Next == AppendBlock \/ PrepareForRead \/ GetNext

Spec == Init /\ [][Next]_vars

\* the caller of a prepared sorter keeps calling get_next
SpecLive == Init /\ [][Next]_vars /\ WF_vars(GetNext)

\* ------------------------------------------------------------ contract violations
\* get_next called before prepare_for_read: the code checks nothing
GetNextEarly ==
    /\ ~prepared /\ alive
    /\ \E mode \in CallerModes :
        /\ (mode = "kept") => (out_block # <<>>)
        /\ GetNextCall(mode)
    /\ misused' = TRUE

\* append_block with a zero-row block: DCHECK(block->rows() > 0) aborts in a
\* build that compiles DCHECK in, and is no code at all in a release build
AppendEmptyBlock ==
    /\ ~prepared /\ alive
    /\ \E dcheck \in BOOLEAN :
        IF dcheck
        THEN /\ aborted' = TRUE
             /\ UNCHANGED <<write_side, sort_log, pruned, failed>>
        ELSE IF _reach_limit(unsorted_block)
             THEN \E ub \in top_outcomes, status \in SortStatus :
                      _do_sort(unsorted_block, ub, status)
             ELSE UNCHANGED <<write_side, sort_log, pruned, aborted, failed>>
    /\ last' = [no_call EXCEPT !.op = "append_block", !.empty_in = TRUE]
    /\ misused' = TRUE
    /\ UNCHANGED <<config, read_side, caller_side, prepared, input, retained, emitted, done>>

NextMisuse == AppendBlock \/ PrepareForRead \/ GetNext \/ GetNextEarly \/ AppendEmptyBlock

SpecMisuse == Init /\ [][NextMisuse]_vars

\* ------------------------------------------------------------ reference notions
Min(a, b) == IF a < b THEN a ELSE b
Take(n, s) == SubSeq(s, 1, Min(n, Len(s)))
Drop(n, s) == SubSeq(s, Min(n, Len(s)) + 1, Len(s))
Count(s, v) == Cardinality({i \in 1..Len(s) : s[i] = v})
SameRows(s, t) == \A v \in Values : Count(s, v) = Count(t, v)
Ordered(s) == \A i \in 1..(Len(s) - 1) : ~less(s[i + 1], s[i])

RECURSIVE Flatten(_)
Flatten(blocks) == IF blocks = <<>> THEN <<>> ELSE Head(blocks) \o Flatten(Tail(blocks))

\* the k-th value in the order of the sort description
NthValue(k) == IF is_asc THEN k ELSE MaxVal + 1 - k

\* the rows of s in the order of the sort description, by counting
RECURSIVE SortedFrom(_, _)
SortedFrom(s, k) ==
    IF k > MaxVal THEN <<>>
    ELSE [i \in 1..Count(s, NthValue(k)) |-> NthValue(k)] \o SortedFrom(s, k + 1)
SortedRows(s) == SortedFrom(s, 1)

\* the rows merge_sort_read hands out, call after call, up to end-of-stream
RECURSIVE MergeDrain(_, _, _, _)
MergeDrain(pq, cur, off, quota) ==
    LET r == merge_sort_read(pq, cur, off, <<>>, FALSE, quota)
    IN IF r.eos THEN <<>> ELSE r.emit \o MergeDrain(r.pq, r.cursors, r.offset, quota)

\* the first get_next after prepare_for_read has just returned
FirstRead == prepared /\ last.op = "get_next" /\ last.first

\* the last call was a get_next that went through merge_sort_read
MergeCall == prepared /\ last.op = "get_next" /\ last.path = "merge"

\* the rows the cursors in the priority queue have still to hand out
RECURSIVE RemainingFrom(_)
RemainingFrom(i) ==
    IF i > Len(cursors) THEN 0
    ELSE (IF i \in priority_queue THEN Len(cursors[i].rows) - cursors[i].pos ELSE 0)
         + RemainingFrom(i + 1)
Remaining == RemainingFrom(1)

\* s is t with one more element at its end
Extends(s, t) == Len(s) = Len(t) + 1 /\ SubSeq(s, 1, Len(t)) = t

\* ------------------------------------------------------------ claims

\* C1: the rows handed out by get_next up to end-of-stream, in the order
\* handed out, are ordered under the sort description, whatever limit, offset
\* and number of retained blocks.
C1_OrderInvariant == Ordered(emitted)

C1_Witness ==
    /\ done /\ last.path = "merge" /\ Len(retained) >= 2
    /\ Len(emitted) >= 2 /\ emitted[1] # emitted[Len(emitted)]

\* C2: at end-of-stream the rows handed out are the rows of the retained
\* blocks minus the first _offset rows of their sorted order, and their number
\* is max(0, retained rows - _offset).
C2_OffsetContent ==
    done =>
        /\ SameRows(emitted, Drop(_offset, SortedRows(Flatten(retained))))
        /\ Len(emitted) = Len(Flatten(retained)) - Min(_offset, Len(Flatten(retained)))

C2_Witness ==
    /\ done /\ _offset >= 1 /\ Len(retained) >= 2
    /\ Len(emitted) >= 1 /\ Len(emitted) < Len(Flatten(retained))

\* C3 as stated: with limit L, offset 0 and at least L rows appended, the
\* rows handed out up to end-of-stream are exactly the L first rows of the
\* sorted input, no more and no fewer (taken for L >= 1, where no step of the
\* run reads an empty heap).
C3_TopNExact ==
    (done /\ _limit >= 1 /\ _offset = 0 /\ Len(input) >= _limit) =>
        /\ Len(emitted) = _limit
        /\ SameRows(emitted, Take(_limit, SortedRows(input)))

\* C3 as amended: under the same conditions the first L rows handed out are
\* the L first rows of the sorted input; more rows may follow them.
C3_TopNPrefix ==
    (done /\ _limit >= 0 /\ _offset = 0 /\ Len(input) >= _limit) =>
        /\ Len(emitted) >= _limit
        /\ Take(_limit, emitted) = Take(_limit, SortedRows(input))

C3_Witness ==
    /\ done /\ _limit >= 1 /\ _offset = 0 /\ Len(retained) >= 2
    /\ Len(input) > _limit /\ Len(emitted) > _limit

C5_UnboundedNotTruncated ==
    (_limit = -1 /\ sort_log.ran) =>
        ~(sort_log.bound > 0 /\ sort_log.bound < sort_log.rows)

\* C6: a get_next call made after end-of-stream was reported reports
\* end-of-stream and leaves the caller's block as it was passed in.
C6_EosStable ==
    (prepared /\ last.op = "get_next" /\ last.drained) =>
        (eos /\ out_block = last.block_in)

\* C7: after a get_next call that handed out rows, the caller's block holds
\* the rows of that call only, also when the block came in with rows from the
\* call before.
C7_ReuseNoLeak ==
    (prepared /\ last.op = "get_next" /\ last.emit # <<>>) =>
        out_block = last.emit

\* C8: with exactly one retained block the first get_next hands out that
\* block minus its first _offset rows, whatever batch_size, reports
\* end-of-stream, and touches neither cursors nor priority queue nor the
\* merge's offset counter.
C8_SingleBatchFastPath ==
    (FirstRead /\ Len(retained) = 1) =>
        /\ eos
        /\ out_block = Drop(_offset, retained[1])
        /\ last.emit = out_block
        /\ priority_queue = {}
        /\ cursors = build_cursors(retained)
        /\ state_offset = _offset

C8_Witness ==
    /\ FirstRead /\ Len(retained) = 1 /\ _offset >= 1
    /\ Len(out_block) > batch_size

\* C9: with exactly one retained block the rows the first get_next hands out
\* are, row for row, the rows merge_sort_read hands out call after call from a
\* priority queue holding that block's cursor alone, with the same offset.
C9_FastPathEquivalence ==
    (FirstRead /\ Len(retained) = 1) =>
        last.emit = MergeDrain({1}, build_cursors(retained), _offset, batch_size)

C9_Witness ==
    /\ FirstRead /\ Len(retained) = 1 /\ _offset >= 1
    /\ Len(last.emit) >= 2 /\ last.emit[1] # last.emit[2]

\* C10: a get_next call before prepare_for_read, and an append_block call
\* with a zero-row block, end with the process aborted.
C10_PreconditionFatal ==
    (\/ (last.op = "get_next" /\ ~last.prepared)
     \/ (last.op = "append_block" /\ last.empty_in)) => aborted

\* C11: in bounded mode, after a sort-and-admit step that went through the
\* num_rows < _limit branch, num_rows is the sum of the row counts of the
\* blocks admitted so far (all of them through that branch).
C11_RunningTotal ==
    (~prepared /\ alive /\ sort_log.branch = "admit") =>
        num_rows = Len(Flatten(sorted_blocks))

\* C12: a merge_sort_read call that hands out no row reports end-of-stream
\* and leaves the caller's block as it was passed in; a call that hands out
\* at least one row does not report end-of-stream.
C12_MergeZeroRows ==
    MergeCall =>
        IF last.emit = <<>>
        THEN eos /\ out_block = last.block_in
        ELSE ~eos

C12_Witness ==
    /\ MergeCall /\ last.emit = <<>> /\ last.block_in # <<>>
    /\ _offset >= 1 /\ state_offset = 0

\* C13: a step in which partial_sort fails returns the failure and leaves
\* sorted_blocks, _block_priority_queue and num_rows as they were; no merge
\* tree is built and the sorter is not prepared.
C13_FailFast ==
    [][(failed' /\ ~failed) =>
            /\ sorted_blocks' = sorted_blocks
            /\ _block_priority_queue' = _block_priority_queue
            /\ num_rows' = num_rows
            /\ cursors' = cursors /\ priority_queue' = priority_queue
            /\ ~prepared']_vars

C13_Witness ==
    /\ failed /\ last.op = "prepare_for_read" /\ last.flushed
    /\ sorted_blocks # <<>> /\ _block_priority_queue # <<>>

\* C14: before prepare_for_read has returned, a step leaves sorted_blocks,
\* _block_priority_queue and num_rows as they were, or appends one block to
\* sorted_blocks (none of its rows discarded) and at most that same block to
\* the heap, every earlier entry kept; a step that discards a candidate
\* changes none of the three.
C14_AppendOnly ==
    [][(~prepared /\ alive) =>
            /\ \/ /\ sorted_blocks' = sorted_blocks
                  /\ _block_priority_queue' = _block_priority_queue
                  /\ num_rows' = num_rows
               \/ /\ Extends(sorted_blocks', sorted_blocks)
                  /\ pruned' = pruned
                  /\ \/ _block_priority_queue' = _block_priority_queue
                     \/ /\ Extends(_block_priority_queue', _block_priority_queue)
                        /\ _block_priority_queue'[Len(_block_priority_queue')]
                               = sorted_blocks'[Len(sorted_blocks')]
            /\ (pruned' # pruned) =>
                  /\ sorted_blocks' = sorted_blocks
                  /\ _block_priority_queue' = _block_priority_queue
                  /\ num_rows' = num_rows]_vars

C14_Witness ==
    /\ ~prepared /\ alive /\ last.flushed /\ sort_log.branch = "discard"
    /\ pruned # <<>> /\ Len(sorted_blocks) >= 2 /\ Len(_block_priority_queue) >= 2

\* C15: after every append_block that returned OK the accumulator holds
\* fewer rows than the flush threshold, and none when the call ran a
\* sort-and-admit step.
C15_FlushTrigger ==
    (last.op = "append_block" /\ alive) =>
        /\ Len(unsorted_block) < flush_threshold
        /\ last.flushed => unsorted_block = <<>>

C15_Witness ==
    /\ last.op = "append_block" /\ alive /\ last.flushed
    /\ sort_log.rows > flush_threshold /\ flush_threshold >= 2

\* C16: when prepare_for_read has returned OK the accumulator is empty,
\* cursors holds one cursor per sorted block, in the same order and at row 0,
\* and the priority queue holds every cursor if there are two blocks or more
\* and none otherwise.
C16_PreparePostcondition ==
    (last.op = "prepare_for_read" /\ prepared) =>
        /\ unsorted_block = <<>>
        /\ Len(cursors) = Len(sorted_blocks)
        /\ \A i \in 1..Len(sorted_blocks) :
              cursors[i] = [rows |-> sorted_blocks[i], pos |-> 0]
        /\ priority_queue = IF Len(sorted_blocks) > 1 THEN 1..Len(sorted_blocks) ELSE {}

C16_Witness ==
    /\ last.op = "prepare_for_read" /\ prepared /\ last.flushed
    /\ Len(sorted_blocks) >= 2 /\ sorted_blocks[1] # sorted_blocks[2]

\* C17: a merge_sort_read call hands out at most batch_size rows, fewer only
\* if the priority queue is empty when it returns; the block gains the rows
\* handed out and no other; every row taken from the cursors was either
\* handed out or counted off the offset.
C17_OutputQuota ==
    MergeCall =>
        /\ Len(last.emit) <= batch_size
        /\ (Len(last.emit) < batch_size) => (priority_queue = {})
        /\ out_block = last.block_in \o last.emit
        /\ Len(Flatten(retained)) - Remaining = Len(emitted) + (_offset - state_offset)

C17_Witness ==
    /\ MergeCall /\ _offset >= 1 /\ state_offset = 0
    /\ Len(last.emit) = batch_size /\ priority_queue # {}

\* C18: once prepare_for_read has returned, a caller that keeps calling
\* get_next is told end-of-stream after finitely many calls.
C18_Termination == prepared ~> done

C18_Witness ==
    /\ done /\ MergeCall /\ last.emit = <<>>
    /\ Len(emitted) > batch_size /\ Len(retained) >= 2

\* C19: in bounded mode, limit = 0 included, a sort-and-admit step that
\* evaluates the totally-greater test finds at least one block in the heap.
C19_HeapNonEmpty ==
    (sort_log.branch \in {"keep", "discard", "crash"}) => sort_log.heap >= 1

\* C20: with limit = -1, after append_block calls that returned OK and an
\* optional prepare_for_read, the rows of the accumulator plus the rows of
\* the sorted blocks are as many as the rows appended.
C20_RowConservation ==
    (_limit = -1 /\ alive /\ last.op \in {"none", "append_block", "prepare_for_read"}) =>
        Len(unsorted_block) + Len(Flatten(sorted_blocks)) = Len(input)

====
